---- MODULE Spec2Model ----
(***************************************************************************)
(* State-machine model of the satellite client: the DiscoveryManager       *)
(* (service registry), the RequestManager (method registrations and        *)
(* inbound calls) and the TopicManager (topic subscriptions and dispatch). *)
(*                                                                         *)
(* A JavaScript Map is a function whose DOMAIN is the set of its keys; a   *)
(* JavaScript Set is a sequence without duplicates, in insertion order     *)
(* (the order in which Array.from and for..of visit it).  An array result  *)
(* is a sequence.  "undefined" results are the empty set: a lookup that    *)
(* returns one value or undefined is the set of the values it returns.     *)
(***************************************************************************)
EXTENDS Naturals, Sequences, FiniteSets

VARIABLES
    services,               \* DiscoveryManager.services: Map id -> ServiceInfo
    servicesByCapability,   \* DiscoveryManager.servicesByCapability: Map capability -> Set of ids
    servicesByName,         \* DiscoveryManager.servicesByName: Map name -> id
    emitted,                \* the last notification emitted on service.events by the registry
    rejoined,               \* history: some join was applied to an id already in services
    unknownLeft,            \* history: some leave was applied to an id that is not in services
    methods,                \* RequestManager.methods: Map name -> {handler, options}
    calls,                  \* the inbound calls received so far, each with its handler, timer and replies
    raised,                 \* the outcome of the last registerMethod / unregisterMethod
    handlers,               \* TopicManager.handlers: Map topic -> Set of handlers
    subscriptions,          \* TopicManager.subscriptions: Map topic -> {timestamp, handler}
    ops,                    \* the subscribe / unsubscribe calls made so far, in call order
    overlap,                \* history: some call was made while another was awaiting the broker
    msgs,                   \* the inbound broker:message events so far, each with its dispatch loop
    out,                    \* the sendRequest / sendNotification calls made so far
    pendingRequests,        \* RequestManager.pendingRequests: Map id -> {resolve, reject}
    node,                   \* the life of the Satellite: constructed, ready, stopping, stopped, failed
    cleaning,               \* the TopicManager.cleanup call, if one was made
    sat                     \* Satellite: the flags ready, connected, identified, its start() and
                            \* stop() calls and the socket of its client

regVars == <<services, servicesByCapability, servicesByName, emitted, rejoined, unknownLeft>>
reqVars == <<methods, calls, raised>>
topVars == <<handlers, subscriptions, ops, overlap, msgs>>
lifeVars == <<out, pendingRequests, node, cleaning, sat>>
vars == <<regVars, reqVars, topVars, lifeVars>>

(***************************************************************************)
(* Bounds of the model.                                                    *)
(***************************************************************************)
MaxCalls == 1           \* inbound calls received
MaxHandlerReplies == 1  \* uses of context.success / context.error by one handler execution
MaxOps == 3             \* subscribe / unsubscribe calls made
MaxMsgs == 1            \* inbound messages delivered
MaxDispatchMsgs == 2    \* inbound messages delivered to a settled handler table
MaxOut == 2             \* sendRequest / sendNotification calls made

(***************************************************************************)
(* Map and Set helpers.                                                    *)
(***************************************************************************)
EmptyMap == <<>>

MapSet(m, k, v) == [x \in (DOMAIN m) \cup {k} |-> IF x = k THEN v ELSE m[x]]

MapDelete(m, k) == [x \in (DOMAIN m) \ {k} |-> m[x]]

Range(s) == {s[i] : i \in DOMAIN s}

SetHas(s, x) == x \in Range(s)

\* an add that keeps an element as often as it was added
SetAdd_Appends(s, x) == Append(s, x)

SetAdd(s, x) == IF SetHas(s, x) THEN s ELSE Append(s, x)

SetDelete(s, x) == SelectSeq(s, LAMBDA y : y # x)

NoDuplicates(s) == \A i, j \in DOMAIN s : s[i] = s[j] => i = j

(***************************************************************************)
(* DiscoveryManager.                                                       *)
(* A ServiceInfo is modelled by its id, name and capabilities array; type  *)
(* and metadata are opaque payload that no index reads.                    *)
(***************************************************************************)
Ids == {"A", "B"}
Names == {"n1", "n2"}
Capabilities == {"c1", "c2"}
CapabilityLists == {<<>>, <<"c1">>, <<"c2">>, <<"c1", "c2">>, <<"c1", "c1">>}
ServiceInfos == [id : Ids, name : Names, capabilities : CapabilityLists]

NoEvent == [type |-> "none"]

\* the three lookups, over the maps svc (services), byName (servicesByName)
\* and byCap (servicesByCapability)
\* Array.from(serviceIds).map(id => services.get(id)).filter(Boolean)
ByCapabilityIn(svc, byCap, capability) ==
    LET serviceIds == IF capability \in DOMAIN byCap THEN byCap[capability] ELSE <<>>
        known == SelectSeq(serviceIds, LAMBDA id : id \in DOMAIN svc)
    IN  [i \in DOMAIN known |-> svc[known[i]]]

ByNameIn(svc, byName, name) ==
    IF name \in DOMAIN byName /\ byName[name] \in DOMAIN svc
    THEN {svc[byName[name]]}
    ELSE {}

ByIdIn(svc, id) == IF id \in DOMAIN svc THEN {svc[id]} ELSE {}

findServicesByCapability(capability) ==
    ByCapabilityIn(services, servicesByCapability, capability)

findServiceByName(name) == ByNameIn(services, servicesByName, name)

findServiceById(id) == ByIdIn(services, id)

\* what the three lookups return for the id, the name and the capabilities of
\* a record
RegistryView(svc, byName, byCap, serviceInfo) ==
    [byId |-> ByIdIn(svc, serviceInfo.id),
     byName |-> ByNameIn(svc, byName, serviceInfo.name),
     byCap |-> [c \in Range(serviceInfo.capabilities) |->
                   Range(ByCapabilityIn(svc, byCap, c))]]

\* a 'service:discovered' emitted before the maps are written
JoinedView_BeforeIndexing(serviceInfo) ==
    RegistryView(services, servicesByName, servicesByCapability, serviceInfo)

\* what a listener of 'service:discovered' reads from the registry: emit is the
\* last statement of handleServiceJoined, after the maps are written
JoinedView(serviceInfo) ==
    RegistryView(services', servicesByName', servicesByCapability', serviceInfo)

\* a loop that adds the id only to the buckets it creates
RECURSIVE IndexCapabilities_OnlyNewBuckets(_, _, _)
IndexCapabilities_OnlyNewBuckets(byCap, caps, id) ==
    IF caps = <<>> THEN byCap
    ELSE LET c == Head(caps)
         IN  IndexCapabilities_OnlyNewBuckets(
                 IF c \in DOMAIN byCap THEN byCap ELSE MapSet(byCap, c, <<id>>), Tail(caps), id)

\* the loop of handleServiceJoined over serviceInfo.capabilities
RECURSIVE IndexCapabilities(_, _, _)
IndexCapabilities(byCap, caps, id) ==
    IF caps = <<>> THEN byCap
    ELSE LET c == Head(caps)
             created == IF c \in DOMAIN byCap THEN byCap ELSE MapSet(byCap, c, <<>>)
         IN  IndexCapabilities(MapSet(created, c, SetAdd(created[c], id)), Tail(caps), id)

\* the loop of handleServiceLeft over serviceInfo.capabilities
RECURSIVE UnindexCapabilities(_, _, _)
UnindexCapabilities(byCap, caps, id) ==
    IF caps = <<>> THEN byCap
    ELSE LET c == Head(caps)
             after == IF c \in DOMAIN byCap
                      THEN LET bucket == SetDelete(byCap[c], id)
                           IN  IF Len(bucket) = 0 THEN MapDelete(byCap, c)
                               ELSE MapSet(byCap, c, bucket)
                      ELSE byCap
         IN  UnindexCapabilities(after, Tail(caps), id)

handleServiceJoined(serviceInfo) ==
    /\ services' = MapSet(services, serviceInfo.id, serviceInfo)
    /\ servicesByName' = MapSet(servicesByName, serviceInfo.name, serviceInfo.id)
    /\ servicesByCapability' =
           IndexCapabilities(servicesByCapability, serviceInfo.capabilities, serviceInfo.id)
    /\ emitted' = [type |-> "service:discovered", service |-> serviceInfo,
                   seen |-> JoinedView(serviceInfo)]
    /\ rejoined' = (rejoined \/ serviceInfo.id \in DOMAIN services)
    /\ UNCHANGED <<unknownLeft, reqVars, topVars, lifeVars>>

\* this.servicesByName.delete(serviceInfo.name)
LeftNameIndex(serviceInfo) == MapDelete(servicesByName, serviceInfo.name)

LeftServices_KeepsRecord(serviceId) == services

\* this.services.delete(serviceId)
LeftServices(serviceId) == MapDelete(services, serviceId)

\* a leave of an unknown id that emits the loss of a record it makes up
UnknownServiceLeft_Emits(serviceId) ==
    /\ emitted' = [type |-> "service:lost",
                   service |-> [id |-> serviceId, name |-> "n1", capabilities |-> <<>>],
                   seen |-> [byId |-> {}, byName |-> {}, byCap |-> EmptyMap]]
    /\ unknownLeft' = TRUE
    /\ UNCHANGED <<services, servicesByName, servicesByCapability, rejoined,
                   reqVars, topVars, lifeVars>>

\* handleServiceLeft when this.services.get(serviceId) is undefined: the body of
\* the if is skipped
UnknownServiceLeft(serviceId) ==
    /\ unknownLeft' = TRUE
    /\ UNCHANGED <<services, servicesByName, servicesByCapability, emitted, rejoined,
                   reqVars, topVars, lifeVars>>

handleServiceLeft(serviceId) ==
    IF serviceId \in DOMAIN services
    THEN LET serviceInfo == services[serviceId]
         IN  /\ services' = LeftServices(serviceId)
             /\ servicesByName' = LeftNameIndex(serviceInfo)
             /\ servicesByCapability' =
                    UnindexCapabilities(servicesByCapability, serviceInfo.capabilities, serviceId)
             /\ emitted' = [type |-> "service:lost", service |-> serviceInfo,
                            seen |-> RegistryView(services', servicesByName',
                                                  servicesByCapability', serviceInfo)]
             /\ UNCHANGED <<rejoined, unknownLeft, reqVars, topVars, lifeVars>>
    ELSE UnknownServiceLeft(serviceId)

\* Array.from(this.servicesByCapability.keys()), as a set
listCapabilities == DOMAIN servicesByCapability

(***************************************************************************)
(* Registry properties.                                                    *)
(***************************************************************************)
InBucket(id, c) == c \in DOMAIN servicesByCapability /\ SetHas(servicesByCapability[c], id)

Lists(id, c) == id \in DOMAIN services /\ c \in Range(services[id].capabilities)

\* C3: for every capability c and every id, the id is in the bucket of c if and
\* only if the registry holds a record with that id whose capabilities include c.
C3_CapabilityIndexExact ==
    \A c \in Capabilities : \A id \in Ids : InBucket(id, c) <=> Lists(id, c)

\* C4: every name-index entry name -> id refers to a record that is in the
\* registry and has that name, and findServiceByName(n) never returns a record
\* whose name differs from n.
C4_NameIndexExact ==
    /\ \A n \in DOMAIN servicesByName :
           /\ servicesByName[n] \in DOMAIN services
           /\ services[servicesByName[n]].name = n
    /\ \A n \in Names : \A r \in findServiceByName(n) : r.name = n

\* a step in which a known service leaves: the "service:lost" notification changes
ALeaveStep == emitted' # emitted /\ emitted'.type = "service:lost"

\* C5: a leave removes the name-index entry of the leaving record only if that
\* entry still points at the leaving id: an entry that points at another id is
\* kept, so the name still resolves to the record that joined later.
C5_LeaveKeepsOthersName ==
    [][ALeaveStep =>
          LET R == emitted'.service
          IN  (R.name \in DOMAIN servicesByName /\ servicesByName[R.name] # R.id)
                  => /\ R.name \in DOMAIN servicesByName'
                     /\ servicesByName'[R.name] = servicesByName[R.name]]_vars

\* C6: once a joined record R has left (the last notification is the loss of R),
\* findServiceById(R.id) returns nothing, findServiceByName(R.name) returns no
\* record with id R.id, and findServicesByCapability(c) holds no record with id
\* R.id for every c of R.capabilities, whatever joins and leaves came before.
C6_LeftRecordNotFound ==
    emitted.type = "service:lost" =>
        LET R == emitted.service
        IN  /\ findServiceById(R.id) = {}
            /\ \A r \in findServiceByName(R.name) : r.id # R.id
            /\ \A c \in Range(R.capabilities) :
                   \A r \in Range(findServicesByCapability(c)) : r.id # R.id

\* a record with two capabilities has left after an earlier re-join, while
\* another record that shares its name and a capability is still found
C6_Witness ==
    /\ emitted.type = "service:lost"
    /\ rejoined
    /\ emitted.service.capabilities = <<"c1", "c2">>
    /\ Len(findServicesByCapability("c1")) = 1
    /\ \E id \in DOMAIN services : services[id].name = emitted.service.name

\* C7: when the records were joined under distinct ids (no join of an id that was
\* already present), findServicesByCapability(c) returns exactly the records in
\* the registry that list c: no duplicates, none missing, none extra, also after
\* some of them have left.
C7_CapabilityLookupExact ==
    ~rejoined =>
        \A c \in Capabilities :
            LET found == findServicesByCapability(c)
            IN  /\ NoDuplicates(found)
                /\ Range(found) = {services[id] : id \in {j \in Ids : Lists(j, c)}}

\* two records listed c1, one of them has left and the other is what is found
C7_Witness ==
    /\ ~rejoined
    /\ emitted.type = "service:lost"
    /\ "c1" \in Range(emitted.service.capabilities)
    /\ Len(findServicesByCapability("c1")) = 1
    /\ findServicesByCapability("c1")[1].capabilities = <<"c1", "c1">>

\* C23: a leave of an id that is not in the registry changes nothing: the
\* primary map, the name index, the capability index and the last notification
\* are what they were, and no step emits the loss of a record that the registry
\* did not hold.
C23_UnknownLeaveIsNoOp ==
    [][/\ unknownLeft' # unknownLeft =>
              /\ services' = services
              /\ servicesByName' = servicesByName
              /\ servicesByCapability' = servicesByCapability
              /\ emitted' = emitted
       /\ (emitted' # emitted /\ emitted'.type = "service:lost") =>
              /\ emitted'.service.id \in DOMAIN services
              /\ services[emitted'.service.id] = emitted'.service]_vars

\* a leave of an unknown id has been applied to a registry that holds a record
C23_Witness ==
    /\ unknownLeft
    /\ Cardinality(DOMAIN services) = 1
    /\ emitted.type = "service:discovered"

\* C28: a join and a leave of a known id each emit their notification once,
\* after the primary map and both indices are written: the listener of a
\* 'service:discovered' finds the joined record by its id, by its name and by
\* each of its capabilities, the listener of a 'service:lost' finds the left
\* record by none of them; every step that changes a map emits the
\* notification of that change.
C28_NotificationAfterUpdate ==
    /\ [](/\ emitted.type = "service:discovered" =>
                /\ emitted.seen.byId = {emitted.service}
                /\ emitted.seen.byName = {emitted.service}
                /\ \A c \in Range(emitted.service.capabilities) :
                       emitted.service \in emitted.seen.byCap[c]
          /\ emitted.type = "service:lost" =>
                /\ emitted.seen.byId = {}
                /\ \A r \in emitted.seen.byName : r.id # emitted.service.id
                /\ \A c \in Range(emitted.service.capabilities) :
                       \A r \in emitted.seen.byCap[c] : r.id # emitted.service.id)
    /\ [][(\/ services' # services
           \/ servicesByName' # servicesByName
           \/ servicesByCapability' # servicesByCapability) =>
              \/ /\ emitted'.type = "service:discovered"
                 /\ emitted'.service.id \in DOMAIN services'
                 /\ services'[emitted'.service.id] = emitted'.service
              \/ /\ emitted'.type = "service:lost"
                 /\ emitted'.service.id \in DOMAIN services
                 /\ services[emitted'.service.id] = emitted'.service
                 /\ emitted'.service.id \notin DOMAIN services']_vars

\* a record with two capabilities has joined while another record holds its
\* name and one of its capabilities
C28_Witness ==
    /\ emitted.type = "service:discovered"
    /\ emitted.service.capabilities = <<"c1", "c2">>
    /\ Cardinality(DOMAIN services) = 2
    /\ Len(findServicesByCapability("c1")) = 2
    /\ \A id \in DOMAIN services : services[id].name = emitted.service.name

\* C29: no capability bucket is empty, and listCapabilities() is the set of the
\* capabilities that some record of the registry lists.
C29_ListCapabilitiesExact ==
    /\ \A c \in DOMAIN servicesByCapability : Len(servicesByCapability[c]) > 0
    /\ listCapabilities =
           {c \in Capabilities : \E id \in DOMAIN services : c \in Range(services[id].capabilities)}

RegistryInit ==
    /\ services = EmptyMap
    /\ servicesByCapability = EmptyMap
    /\ servicesByName = EmptyMap
    /\ emitted = NoEvent
    /\ rejoined = FALSE
    /\ unknownLeft = FALSE

ServiceJoined == \E serviceInfo \in ServiceInfos : handleServiceJoined(serviceInfo)

ServiceLeft == \E serviceId \in Ids : handleServiceLeft(serviceId)

RegistryNext == ServiceJoined \/ ServiceLeft

(***************************************************************************)
(* RequestManager.                                                         *)
(* A handler is known by its name; what it does when it runs (uses the     *)
(* reply functions of the context, returns, throws, takes longer than the  *)
(* timeout) is chosen by the environment, one step at a time.              *)
(***************************************************************************)
MethodNames == {"x"}
MethodHandlers == {"h1", "h2"}
defaultTimeout == 30000
MethodOptions == {[timeout |-> 10], EmptyMap}

\* { timeout: this.defaultTimeout, ...options }
MergedOptions(options) ==
    [timeout |-> IF "timeout" \in DOMAIN options THEN options.timeout ELSE defaultTimeout]

\* a registerMethod that reports the collision and stores the new handler
registerMethod_Overwrites(name, handler, options) ==
    /\ methods' = MapSet(methods, name,
                         [handler |-> handler, options |-> MergedOptions(options)])
    /\ raised' = IF name \in DOMAIN methods THEN "Method already registered" ELSE "none"
    /\ UNCHANGED <<calls, regVars, topVars, lifeVars>>

registerMethod(name, handler, options) ==
    /\ IF name \in DOMAIN methods
       THEN /\ raised' = "Method already registered"
            /\ UNCHANGED methods
       ELSE /\ methods' = MapSet(methods, name,
                                 [handler |-> handler, options |-> MergedOptions(options)])
            /\ raised' = "none"
    /\ UNCHANGED <<calls, regVars, topVars, lifeVars>>

\* an unregisterMethod that logs the removal and keeps the registration
unregisterMethod_KeepsEntry(name) ==
    /\ raised' = IF name \in DOMAIN methods THEN "none" ELSE "absent"
    /\ UNCHANGED <<methods, calls, regVars, topVars, lifeVars>>

\* if (this.methods.delete(name)) logger.debug(...): "absent" records that
\* delete returned false
unregisterMethod(name) ==
    /\ IF name \in DOMAIN methods
       THEN /\ methods' = MapDelete(methods, name)
            /\ raised' = "none"
       ELSE /\ raised' = "absent"
            /\ UNCHANGED methods
    /\ UNCHANGED <<calls, regVars, topVars, lifeVars>>

\* one invocation of context.success(result) or context.error(code, message)
SuccessReply(by, result) ==
    [kind |-> "success", code |-> "", message |-> result, by |-> by]

ErrorReply(by, code, message) ==
    [kind |-> "error", code |-> code, message |-> message, by |-> by]

\* context.error('METHOD_ERROR', error.message)
CaughtReply(message) == ErrorReply("handleIncomingRequest", "METHOD_ERROR", message)

\* `Method ${method} not found`
NotFoundMessage(method) == "Method " \o method \o " not found"

\* What a handler throws or rejects with: an Error, known by its message (a
\* text of its own, or the text that this file gives to another error), or a
\* value that is no object (null, undefined).
NullReason == "null"
HandlerErrors == {"handler error"}
Thrown == HandlerErrors \cup {NotFoundMessage(n) : n \in MethodNames} \cup {NullReason}

\* the catch block of handleIncomingRequest, which ends the function: reading
\* error.message throws a TypeError when error is null or undefined
CatchBlock(call, error) ==
    IF error = NullReason
    THEN [call EXCEPT !.ended = "threw"]
    ELSE [call EXCEPT !.replies = Append(@, CaughtReply(error)), !.ended = "returned"]

\* handleIncomingRequest up to its await: the lookup, the call of the handler and
\* the creation of the timer.  A handler that throws before it returns a promise
\* (sync is what it throws) ends the try block before the timer promise is
\* built.  error is what the catch block caught from the handler, ended tells
\* how the promise of handleIncomingRequest settled.
handleIncomingRequest(method, sync) ==
    /\ Len(calls) < MaxCalls
    /\ calls' = Append(calls,
          IF method \notin DOMAIN methods
          THEN CatchBlock([method |-> method, handler |-> "none", timeout |-> 0,
                           hstate |-> "none", used |-> 0, timer |-> "none",
                           race |-> "notfound", error |-> "none", ended |-> "pending",
                           replies |-> <<>>],
                          NotFoundMessage(method))
          ELSE IF sync # "none"
          THEN CatchBlock([method |-> method, handler |-> methods[method].handler,
                           timeout |-> methods[method].options.timeout,
                           hstate |-> "threw", used |-> 0, timer |-> "none",
                           race |-> "handler", error |-> sync, ended |-> "pending",
                           replies |-> <<>>],
                          sync)
          ELSE [method |-> method, handler |-> methods[method].handler,
                timeout |-> methods[method].options.timeout,
                hstate |-> "running", used |-> 0, timer |-> "pending", race |-> "pending",
                error |-> "none", ended |-> "pending", replies |-> <<>>])
    /\ UNCHANGED <<methods, raised, regVars, topVars, lifeVars>>

\* the running handler of call i itself invokes context.success or context.error
HandlerUsesContext(i, kind) ==
    /\ calls[i].hstate = "running"
    /\ calls[i].used < MaxHandlerReplies
    /\ calls' = [calls EXCEPT
          ![i].used = @ + 1,
          ![i].replies = Append(@, IF kind = "success"
                                   THEN SuccessReply("handler", calls[i].handler)
                                   ELSE ErrorReply("handler", "HANDLER_CODE", "handler error"))]
    /\ UNCHANGED <<methods, raised, regVars, topVars, lifeVars>>

\* what handleIncomingRequest does when the race is decided by the handler
RaceWonByHandler(call, outcome, error) ==
    IF outcome = "returned"
    THEN [call EXCEPT !.race = "handler", !.ended = "returned",
                      !.replies = Append(@, SuccessReply("handleIncomingRequest", call.handler))]
    ELSE CatchBlock([call EXCEPT !.race = "handler", !.error = error], error)

\* the promise of the handler of call i settles (outcome: returned, or threw
\* with error); the continuation of handleIncomingRequest runs only if the race
\* was still undecided
HandlerSettles(i, outcome, error) ==
    /\ calls[i].hstate = "running"
    /\ calls' = [calls EXCEPT ![i] =
          IF calls[i].race = "pending"
          THEN RaceWonByHandler([@ EXCEPT !.hstate = outcome], outcome, error)
          ELSE [@ EXCEPT !.hstate = outcome]]
    /\ UNCHANGED <<methods, raised, regVars, topVars, lifeVars>>

\* the timer of call i fires: reject(new Error('Method timeout')); it decides the
\* race only if the handler has not settled
TimerFires(i) ==
    /\ calls[i].timer = "pending"
    /\ calls' = [calls EXCEPT ![i] =
          IF calls[i].race = "pending"
          THEN CatchBlock([@ EXCEPT !.timer = "fired", !.race = "timer"], "Method timeout")
          ELSE [@ EXCEPT !.timer = "fired"]]
    /\ UNCHANGED <<methods, raised, regVars, topVars, lifeVars>>

RegisterMethod ==
    \E name \in MethodNames, handler \in MethodHandlers, options \in MethodOptions :
        registerMethod(name, handler, options)

UnregisterMethod == \E name \in MethodNames : unregisterMethod(name)

IncomingRequest ==
    \E method \in MethodNames, sync \in {"none"} \cup HandlerErrors :
        handleIncomingRequest(method, sync)

HandlerStep ==
    \E i \in DOMAIN calls :
        \/ \E kind \in {"success", "error"} : HandlerUsesContext(i, kind)
        \/ HandlerSettles(i, "returned", "none")
        \/ \E error \in HandlerErrors : HandlerSettles(i, "threw", error)

TimerStep == \E i \in DOMAIN calls : TimerFires(i)

RequestsNext ==
    RegisterMethod \/ UnregisterMethod \/ IncomingRequest \/ HandlerStep \/ TimerStep

\* The same manager with handlers that leave the reply to handleIncomingRequest
\* and end in any of the ways of Thrown.
IncomingRequestAnyError ==
    \E method \in MethodNames, sync \in {"none"} \cup Thrown :
        handleIncomingRequest(method, sync)

HandlerEnds ==
    \E i \in DOMAIN calls :
        \/ HandlerSettles(i, "returned", "none")
        \/ \E error \in Thrown : HandlerSettles(i, "threw", error)

HandlerErrorsNext ==
    RegisterMethod \/ UnregisterMethod \/ IncomingRequestAnyError \/ HandlerEnds \/ TimerStep

(***************************************************************************)
(* Request properties.                                                     *)
(***************************************************************************)
\* the call is over for handleIncomingRequest: it has sent its reply
Answered(call) == call.race # "pending"

\* C1: whatever the handler does, the number of replies sent for an inbound call
\* (invocations of context.success plus context.error) is exactly one: never
\* more than one, and one once handleIncomingRequest has answered.
C1_ExactlyOneReply ==
    \A i \in DOMAIN calls :
        /\ Len(calls[i].replies) <= 1
        /\ Answered(calls[i]) => Len(calls[i].replies) = 1

\* C2: when the timeout elapses before the handler has completed, the single
\* reply of the call is the error reply carrying the method timeout, also after
\* the handler has completed later: no success reply, no second reply.
C2_TimeoutReplyOnly ==
    \A i \in DOMAIN calls :
        calls[i].race = "timer" => calls[i].replies = <<CaughtReply("Method timeout")>>

\* C15: registerMethod on a name that is registered fails and changes nothing:
\* a step that ends with the collision raised leaves the table as it was, a
\* registered name keeps its registration as long as it is in the table, and an
\* inbound call invokes the handler that the table holds for its method.
C15_DuplicateRegistrationRejected ==
    [][/\ raised' = "Method already registered" => methods' = methods
       /\ \A name \in (DOMAIN methods) \cap (DOMAIN methods') :
              methods'[name] = methods[name]
       /\ \A i \in (DOMAIN calls') \ (DOMAIN calls) :
              calls'[i].method \in DOMAIN methods
                  => calls'[i].handler = methods[calls'[i].method].handler]_vars

\* x is registered with h1, a second registerMethod of x has failed, and an
\* inbound call to x runs h1
C15_Witness ==
    /\ raised = "Method already registered"
    /\ "x" \in DOMAIN methods
    /\ methods["x"].handler = "h1"
    /\ Len(calls) = 1
    /\ calls[1].method = "x"
    /\ calls[1].handler = "h1"
    /\ calls[1].hstate = "running"

\* C24: unregisterMethod removes the registration of a registered name and
\* changes nothing for a name that is not registered.  A collision that was
\* raised is cleared only by a step that removes a registration; a call to a
\* name that is not in the table runs no handler and gets the reply of the
\* missing method; registerMethod of a name that is not in the table succeeds,
\* and a call runs the handler that the table holds at that time.
C24_UnregisterThenReregister ==
    [][/\ (raised' = "absent" /\ raised # "absent") =>
              (methods' = methods /\ calls' = calls)
       /\ (DOMAIN methods' # DOMAIN methods /\ DOMAIN methods' \subseteq DOMAIN methods) =>
              \E name \in DOMAIN methods : methods' = MapDelete(methods, name)
       /\ (raised = "Method already registered" /\ raised' # raised) =>
              (DOMAIN methods' # DOMAIN methods /\ DOMAIN methods' \subseteq DOMAIN methods)
       /\ (raised' = "Method already registered" /\ raised' # raised) =>
              methods # EmptyMap
       /\ \A name \in (DOMAIN methods') \ (DOMAIN methods) :
              /\ raised' = "none"
              /\ methods'[name].handler \in MethodHandlers
       /\ \A i \in (DOMAIN calls') \ (DOMAIN calls) :
              IF calls'[i].method \in DOMAIN methods
              THEN calls'[i].handler = methods[calls'[i].method].handler
              ELSE /\ calls'[i].race = "notfound"
                   /\ calls'[i].handler = "none"
                   /\ calls'[i].hstate = "none"
                   /\ calls'[i].replies =
                          <<CaughtReply(NotFoundMessage(calls'[i].method))>>]_vars

\* x was registered with h1 when the call arrived, and is registered with h2
\* now: x was unregistered and registered again in between
C24_Witness ==
    /\ Len(calls) = 1
    /\ calls[1].method = "x"
    /\ calls[1].handler = "h1"
    /\ "x" \in DOMAIN methods
    /\ methods["x"].handler = "h2"
    /\ raised = "none"

\* an unregisterMethod of a name that is not registered has been applied, and
\* the call to that name that followed was answered as a missing method
C24_WitnessAbsent ==
    /\ raised = "absent"
    /\ methods = EmptyMap
    /\ Len(calls) = 1
    /\ calls[1].race = "notfound"

\* the table no longer holds the registration that call i was received with:
\* its method was unregistered, or registered again, after the call arrived
Replaced(i) ==
    \/ calls[i].method \notin DOMAIN methods
    \/ /\ calls[i].method \in DOMAIN methods
       /\ \/ methods[calls[i].method].handler # calls[i].handler
          \/ methods[calls[i].method].options.timeout # calls[i].timeout

\* the handler and the timeout of a call stay those of its receipt, and a step
\* that changes the method table changes no call
CallKeepsRegistration ==
    [][/\ \A i \in DOMAIN calls :
              /\ calls'[i].method = calls[i].method
              /\ calls'[i].handler = calls[i].handler
              /\ calls'[i].timeout = calls[i].timeout
       /\ methods' # methods => calls' = calls]_vars

\* C33: an inbound call uses the registration present at its receipt: an
\* unregisterMethod, also one followed by registerMethod with another handler,
\* made while the handler of the call runs changes neither the handler nor the
\* timeout of the call, and when that handler settles the call has its one
\* reply, the one made from the handler's outcome.
C33_InFlightCallKeepsRegistration ==
    [][/\ \A i \in DOMAIN calls :
              /\ calls'[i].method = calls[i].method
              /\ calls'[i].handler = calls[i].handler
              /\ calls'[i].timeout = calls[i].timeout
              /\ (Replaced(i) /\ calls[i].race = "pending" /\ calls'[i].race = "handler") =>
                     calls'[i].replies \in
                         {<<SuccessReply("handleIncomingRequest", calls[i].handler)>>}
                             \cup {<<CaughtReply(error)>> : error \in Thrown}
       /\ methods' # methods => calls' = calls]_vars

\* C27: once the handler of an inbound call has settled before the deadline
\* and handleIncomingRequest has replied, the timer of the call is no longer
\* pending and has not fired.
C27_TimerCancelledAfterRace ==
    \A i \in DOMAIN calls :
        calls[i].race = "handler" => calls[i].timer \notin {"pending", "fired"}

\* C16: an inbound call to a method that is not registered runs no handler,
\* starts no timer and gets one error reply, the one of the missing method; no
\* call whose method is registered gets that reply, neither for a timeout nor
\* for an error of its handler.
C16_NotFoundReplyDistinct ==
    \A i \in DOMAIN calls :
        /\ calls[i].race = "notfound" =>
               /\ calls[i].handler = "none" /\ calls[i].hstate = "none"
               /\ calls[i].timer = "none"
               /\ calls[i].replies = <<CaughtReply(NotFoundMessage(calls[i].method))>>
        /\ calls[i].race \in {"handler", "timer"} =>
               \A k \in DOMAIN calls[i].replies :
                   calls[i].replies[k] # CaughtReply(NotFoundMessage(calls[i].method))

\* C17: when the handler throws or rejects before the timeout, the function
\* handleIncomingRequest sends the error reply that carries the handler's
\* error and returns normally: its promise is never rejected.
C17_HandlerErrorBecomesReply ==
    \A i \in DOMAIN calls :
        (calls[i].race = "handler" /\ calls[i].hstate = "threw") =>
            /\ calls[i].ended = "returned"
            /\ Len(calls[i].replies) >= 1
            /\ calls[i].replies[Len(calls[i].replies)] = CaughtReply(calls[i].error)

(***************************************************************************)
(* Outgoing calls and the life of the node.                                *)
(* sendRequest and sendNotification run up to their await when they are    *)
(* called (the transport request is issued then) and resume when the       *)
(* transport settles the request.  out records every call: the request it  *)
(* issued (req), how many times (sent), what the transport answered        *)
(* (transport), how the call ended for its caller (st, outcome) and        *)
(* whether it was pending when the node stopped (atStop).  Targets,        *)
(* method names and payloads are not modelled.                             *)
(***************************************************************************)
RequestOptions == {EmptyMap, [timeout |-> 0], [timeout |-> 10]}
TransportFailures == {"TransportError", "TransportTimeout"}
TransportResults == {"response"} \cup TransportFailures

\* options.timeout || this.defaultTimeout
TimeoutOf(options) ==
    IF "timeout" \in DOMAIN options /\ options.timeout # 0
    THEN options.timeout ELSE defaultTimeout

Issued(kind, req, timeout) ==
    [kind |-> kind, req |-> req, timeout |-> timeout, sent |-> 1, transport |-> "none",
     st |-> "pending", outcome |-> "none", atStop |-> FALSE]

\* sendRequest up to its await
sendRequest(options) ==
    /\ Len(out) < MaxOut
    /\ out' = Append(out, Issued("request", "broker:request", TimeoutOf(options)))
    /\ UNCHANGED <<pendingRequests, node, cleaning, sat, regVars, reqVars, topVars>>

\* sendNotification up to its await: the payload has no timeout
sendNotification ==
    /\ Len(out) < MaxOut
    /\ out' = Append(out, Issued("notify", "broker:notify", 0))
    /\ UNCHANGED <<pendingRequests, node, cleaning, sat, regVars, reqVars, topVars>>

\* a call that issues its request once more when the transport fails
Settled_Retries(call, result) ==
    IF result \in TransportFailures
    THEN IF call.sent < 2
         THEN [call EXCEPT !.sent = @ + 1]
         ELSE [call EXCEPT !.transport = result, !.st = "rejected", !.outcome = result]
    ELSE [call EXCEPT !.transport = result, !.st = "resolved",
                      !.outcome = IF call.kind = "request" THEN result ELSE "undefined"]

\* the call after its await: sendRequest returns the response, sendNotification
\* returns nothing, both log a failure and throw it again
Settled(call, result) ==
    IF result \in TransportFailures
    THEN [call EXCEPT !.transport = result, !.st = "rejected", !.outcome = result]
    ELSE [call EXCEPT !.transport = result, !.st = "resolved",
                      !.outcome = IF call.kind = "request" THEN result ELSE "undefined"]

\* the transport settles the request of call i; it has no response to give once
\* it is disconnected
TransportResponds(i, result) ==
    /\ out[i].st = "pending"
    /\ result = "response" => node # "stopped"
    /\ out' = [out EXCEPT ![i] = Settled(@, result)]
    /\ UNCHANGED <<pendingRequests, node, cleaning, sat, regVars, reqVars, topVars>>

\* start(): connect and identify have succeeded
start ==
    /\ node = "constructed"
    /\ node' = "ready"
    /\ UNCHANGED <<out, pendingRequests, cleaning, sat, regVars, reqVars, topVars>>

\* stop() up to its await of client.disconnect(): with no subscription
\* topics.cleanup() has nothing to unsubscribe
stop ==
    /\ node = "ready"
    /\ subscriptions = EmptyMap
    /\ node' = "stopping"
    /\ UNCHANGED <<out, pendingRequests, cleaning, sat, regVars, reqVars, topVars>>

\* stop() after client.disconnect(): the flags are reset, or the error is thrown
\* again.  What the transport does with the requests it has not answered when
\* it disconnects is its own matter: it leaves them pending or fails them.
\* Nothing here touches pendingRequests or calls RequestManager.cleanup.
Disconnected(ok, fails) ==
    /\ node = "stopping"
    /\ IF ok
       THEN /\ node' = "stopped"
            /\ out' = [i \in DOMAIN out |->
                         IF out[i].st = "pending"
                         THEN IF fails
                              THEN [Settled(out[i], "TransportError") EXCEPT !.atStop = TRUE]
                              ELSE [out[i] EXCEPT !.atStop = TRUE]
                         ELSE out[i]]
       ELSE /\ node' = "failed"
            /\ UNCHANGED out
    /\ UNCHANGED <<pendingRequests, cleaning, sat, regVars, reqVars, topVars>>

\* RequestManager.cleanup(), which no code of the repository calls: it rejects
\* the entries of pendingRequests and empties both tables.  The entries are
\* keyed by the position of their call in out.
requestsCleanup ==
    /\ out' = [i \in DOMAIN out |->
                 IF i \in DOMAIN pendingRequests
                 THEN [out[i] EXCEPT !.st = "rejected", !.outcome = "Service stopping"]
                 ELSE out[i]]
    /\ pendingRequests' = EmptyMap
    /\ methods' = EmptyMap
    /\ UNCHANGED <<calls, raised, node, cleaning, sat, regVars, topVars>>

SendRequest == \E options \in RequestOptions : sendRequest(options)

SendNotification == sendNotification

TransportStep == \E i \in DOMAIN out, result \in TransportResults : TransportResponds(i, result)

Start == start

Stop == stop

Disconnect == \E ok \in BOOLEAN, fails \in BOOLEAN : Disconnected(ok, fails)

RequestsCleanup == requestsCleanup

OutgoingNext ==
    \/ RegisterMethod \/ SendRequest \/ SendNotification \/ TransportStep
    \/ Start \/ Stop \/ Disconnect \/ RequestsCleanup

\* C18: every outgoing call that had not completed when the node stopped is
\* rejected with the reason of a stopping service.
C18_StopRejectsOutstanding ==
    \A i \in DOMAIN out :
        out[i].atStop => (out[i].st = "rejected" /\ out[i].outcome = "Service stopping")

\* C25: when stop() completes, the method table is empty: no registration made
\* before the shutdown is left for an inbound call to resolve.
C25_StopEmptiesMethods ==
    [][(node = "stopping" /\ node' = "stopped") => methods' = EmptyMap]_vars

\* what the two operations have in common: one transport request each, of
\* their own name, a failure of the transport given to the caller as it is, and
\* a method table that they leave alone
OneRequestEach ==
    \A i \in DOMAIN out :
        /\ out[i].sent = 1
        /\ out[i].req = (IF out[i].kind = "request" THEN "broker:request" ELSE "broker:notify")
        /\ out[i].st = "resolved" => out[i].transport = "response"
        /\ out[i].st = "rejected" =>
               (out[i].transport \in TransportFailures /\ out[i].outcome = out[i].transport)

\* the method table is the same before and after every step of a sendRequest
\* or a sendNotification
SendingKeepsMethods ==
    (out' # out /\ pendingRequests' = pendingRequests /\ node' = node) => methods' = methods

Topics == {"t1"}
TopicHandlers == {"h1", "h2"}
NoHandler == "null"

Pending(i) == ops[i].st = "pending"

OpStarted(kind, topic, handler, req) ==
    [kind |-> kind, topic |-> topic, handler |-> handler, req |-> req, resp |-> "none",
     st |-> IF req = "none" THEN "done" ELSE "pending"]

CallMade(op) ==
    /\ ops' = Append(ops, op)
    /\ overlap' = (overlap \/ \E i \in DOMAIN ops : Pending(i))

\* the dispatch loops that iterate the Set object now stored under topic
Live(m, topic) == msgs[m].pc = "await" /\ msgs[m].live /\ msgs[m].topic = topic

\* handlers.delete(handler) on the Set of topic: a loop that is past the
\* deleted element keeps its place in the Set
DeleteFromSet(topic, handler) ==
    LET set == handlers[topic]
        at == IF SetHas(set, handler)
              THEN CHOOSE k \in DOMAIN set : set[k] = handler ELSE 0
    IN  /\ handlers' = MapSet(handlers, topic, SetDelete(set, handler))
        /\ msgs' = [m \in DOMAIN msgs |->
                      IF Live(m, topic) /\ at # 0 /\ msgs[m].pos >= at
                      THEN [msgs[m] EXCEPT !.pos = @ - 1] ELSE msgs[m]]

\* a handlers.delete(topic) that leaves the table as it is
DeleteTopic_KeepsHandlers(topic) == UNCHANGED <<handlers, msgs>>

\* this.handlers.delete(topic): a loop that iterates the Set of topic keeps the
\* Set object, which nothing changes any more
DeleteTopic(topic) ==
    /\ handlers' = MapDelete(handlers, topic)
    /\ msgs' = [m \in DOMAIN msgs |->
                  IF Live(m, topic) /\ topic \in DOMAIN handlers
                  THEN [msgs[m] EXCEPT !.live = FALSE, !.items = handlers[topic]]
                  ELSE msgs[m]]

\* the handler table after handlers.get(topic).add(handler), the Set of the
\* topic being created first when the table has none
Registered(topic, handler) ==
    MapSet(handlers, topic,
           SetAdd(IF topic \in DOMAIN handlers THEN handlers[topic] ELSE <<>>, handler))

\* a subscribe that registers the handler before it awaits the broker
subscribe_RegistersFirst(topic, handler) ==
    /\ CallMade(OpStarted("subscribe", topic, handler, "broker:subscribe"))
    /\ handlers' = Registered(topic, handler)
    /\ UNCHANGED <<subscriptions, msgs, regVars, reqVars>>

\* subscribe up to its await: the broker:subscribe request is issued whatever
\* the handler table holds
subscribe(topic, handler) ==
    /\ CallMade(OpStarted("subscribe", topic, handler, "broker:subscribe"))
    /\ UNCHANGED <<handlers, subscriptions, msgs, regVars, reqVars>>

\* subscribe after its await: the request succeeded (ok) or failed
SubscribeResumes(i, ok) ==
    /\ Pending(i) /\ ops[i].kind = "subscribe"
    /\ IF ok
       THEN /\ handlers' = Registered(ops[i].topic, ops[i].handler)
            /\ subscriptions' = MapSet(subscriptions, ops[i].topic, [handler |-> ops[i].handler])
            /\ ops' = [ops EXCEPT ![i].resp = "ok", ![i].st = "done"]
       ELSE /\ ops' = [ops EXCEPT ![i].resp = "error", ![i].st = "failed"]
            /\ UNCHANGED <<handlers, subscriptions>>
    /\ UNCHANGED <<overlap, msgs, regVars, reqVars>>

\* whether unsubscribe(topic, handler) calls #unsubscribeFromBroker
UnsubscribeRequest_Always(topic, handler) == "broker:unsubscribe"

UnsubscribeRequest(topic, handler) ==
    IF handler = NoHandler THEN "broker:unsubscribe"
    ELSE IF topic \in DOMAIN handlers /\ Len(SetDelete(handlers[topic], handler)) = 0
         THEN "broker:unsubscribe"
         ELSE "none"

\* unsubscribe up to its await (or to its end when it issues no request)
unsubscribe(topic, handler) ==
    /\ CallMade(OpStarted("unsubscribe", topic, handler, UnsubscribeRequest(topic, handler)))
    /\ IF handler # NoHandler /\ topic \in DOMAIN handlers
       THEN DeleteFromSet(topic, handler)
       ELSE UNCHANGED <<handlers, msgs>>
    /\ UNCHANGED <<subscriptions, regVars, reqVars>>

\* an #unsubscribeFromBroker that deletes the subscription and keeps the
\* handlers of the topic
UnsubscribeResumes_KeepsEntry(i, ok) ==
    /\ Pending(i) /\ ops[i].kind = "unsubscribe"
    /\ IF ok
       THEN /\ subscriptions' = MapDelete(subscriptions, ops[i].topic)
            /\ ops' = [ops EXCEPT ![i].resp = "ok", ![i].st = "done"]
            /\ UNCHANGED <<handlers, msgs>>
       ELSE /\ ops' = [ops EXCEPT ![i].resp = "error", ![i].st = "failed"]
            /\ UNCHANGED <<handlers, subscriptions, msgs>>
    /\ UNCHANGED <<overlap, regVars, reqVars>>

\* #unsubscribeFromBroker after its await, and the rest of unsubscribe
UnsubscribeResumes(i, ok) ==
    /\ Pending(i) /\ ops[i].kind = "unsubscribe"
    /\ IF ok
       THEN /\ DeleteTopic(ops[i].topic)
            /\ subscriptions' = MapDelete(subscriptions, ops[i].topic)
            /\ ops' = [ops EXCEPT ![i].resp = "ok", ![i].st = "done"]
       ELSE /\ ops' = [ops EXCEPT ![i].resp = "error", ![i].st = "failed"]
            /\ UNCHANGED <<handlers, subscriptions, msgs>>
    /\ UNCHANGED <<overlap, regVars, reqVars>>

\* a listener that logs an error when the topic has no entry
Arrival_FailsWithoutEntry(topic) ==
    IF topic \in DOMAIN handlers /\ Len(handlers[topic]) > 0
    THEN [topic |-> topic, live |-> TRUE, items |-> <<>>, pos |-> 1,
          inv |-> <<handlers[topic][1]>>, failed |-> FALSE, pc |-> "await"]
    ELSE [topic |-> topic, live |-> FALSE, items |-> <<>>, pos |-> 0,
          inv |-> <<>>, failed |-> topic \notin DOMAIN handlers, pc |-> "done"]

\* the listener of 'broker:message' up to its first await: the lookup of the
\* handler Set and the call of its first handler.  inv lists the handlers called
\* with the message, failed tells whether an error of one of them was logged.
Arrival(topic) ==
    IF topic \in DOMAIN handlers /\ Len(handlers[topic]) > 0
    THEN [topic |-> topic, live |-> TRUE, items |-> <<>>, pos |-> 1,
          inv |-> <<handlers[topic][1]>>, failed |-> FALSE, pc |-> "await"]
    ELSE [topic |-> topic, live |-> FALSE, items |-> <<>>, pos |-> 0,
          inv |-> <<>>, failed |-> FALSE, pc |-> "done"]

MessageArrives(topic) ==
    /\ Len(msgs) < MaxMsgs
    /\ msgs' = Append(msgs, Arrival(topic))
    /\ UNCHANGED <<handlers, subscriptions, ops, overlap, regVars, reqVars>>

\* the Set that the loop of message m iterates
Iterated(m) == IF msgs[m].live THEN handlers[msgs[m].topic] ELSE msgs[m].items

\* a loop that ends at the first handler that throws
DispatchResumes_StopsOnError(m, outcome) ==
    /\ msgs[m].pc = "await"
    /\ LET set == Iterated(m)
       IN  msgs' = [msgs EXCEPT ![m] =
               IF msgs[m].pos < Len(set) /\ outcome # "threw"
               THEN [@ EXCEPT !.pos = @ + 1, !.inv = Append(@, set[msgs[m].pos + 1])]
               ELSE [@ EXCEPT !.failed = (@ \/ outcome = "threw"), !.pc = "done"]]
    /\ UNCHANGED <<handlers, subscriptions, ops, overlap, regVars, reqVars>>

\* the awaited handler of message m settles (returned or threw, the error being
\* logged) and the loop goes on to the next handler of the Set, if any
DispatchResumes(m, outcome) ==
    /\ msgs[m].pc = "await"
    /\ LET set == Iterated(m)
           failed == msgs[m].failed \/ outcome = "threw"
       IN  msgs' = [msgs EXCEPT ![m] =
               IF msgs[m].pos < Len(set)
               THEN [@ EXCEPT !.pos = @ + 1, !.failed = failed,
                              !.inv = Append(@, set[msgs[m].pos + 1])]
               ELSE [@ EXCEPT !.failed = failed, !.pc = "done"]]
    /\ UNCHANGED <<handlers, subscriptions, ops, overlap, regVars, reqVars>>

Subscribe ==
    /\ Len(ops) < MaxOps
    /\ \E topic \in Topics, handler \in TopicHandlers : subscribe(topic, handler)
    /\ UNCHANGED lifeVars

Unsubscribe ==
    /\ Len(ops) < MaxOps
    /\ \E topic \in Topics, handler \in TopicHandlers \cup {NoHandler} :
           unsubscribe(topic, handler)
    /\ UNCHANGED lifeVars

BrokerResponds ==
    /\ \E i \in DOMAIN ops, ok \in BOOLEAN :
           SubscribeResumes(i, ok) \/ UnsubscribeResumes(i, ok)
    /\ UNCHANGED lifeVars

BrokerMessage ==
    /\ \E topic \in Topics : MessageArrives(topic)
    /\ UNCHANGED lifeVars

HandlerDone ==
    /\ \E m \in DOMAIN msgs, outcome \in {"returned", "threw"} : DispatchResumes(m, outcome)
    /\ UNCHANGED lifeVars

TopicsNext == Subscribe \/ Unsubscribe \/ BrokerResponds \/ BrokerMessage \/ HandlerDone

(***************************************************************************)
(* Topic properties.                                                       *)
(***************************************************************************)
Requests(name) == {i \in DOMAIN ops : ops[i].req = name}

\* the calls made so far were made one after the other, each a successful
\* subscribe of another handler to the same topic
SubscribesOnly ==
    /\ ~overlap
    /\ \A i \in DOMAIN ops : ops[i].kind = "subscribe" /\ ops[i].st = "done"
    /\ \A i, j \in DOMAIN ops :
           ops[i].topic = ops[j].topic /\ (ops[i].handler = ops[j].handler => i = j)

\* C8: a subscribe issues a broker:subscribe request only when the topic has no
\* local subscription: k successful subscribes of distinct handlers to one
\* topic produce exactly one broker:subscribe request.
C8_OneSubscribeRequest ==
    (SubscribesOnly /\ Len(ops) >= 1) => Cardinality(Requests("broker:subscribe")) = 1

\* the handler is in the Set of the topic
Subscribed(table, topic, handler) == topic \in DOMAIN table /\ SetHas(table[topic], handler)

\* C9: when the broker answers a subscribe with an error, the call fails for its
\* caller and leaves the handler table and the subscription table as they were;
\* a handler enters a handler Set only in the step in which the broker's
\* success response to a subscribe of that handler to that topic arrives.
C9_FailedSubscribeChangesNothing ==
    [][/\ \A i \in DOMAIN ops :
              (ops[i].kind = "subscribe" /\ ops[i].resp = "none" /\ ops'[i].resp = "error")
                  => /\ ops'[i].st = "failed"
                     /\ handlers' = handlers
                     /\ subscriptions' = subscriptions
       /\ \A topic \in Topics : \A handler \in TopicHandlers :
              (~Subscribed(handlers, topic, handler) /\ Subscribed(handlers', topic, handler))
                  => \E i \in DOMAIN ops :
                         /\ ops[i].kind = "subscribe"
                         /\ ops[i].topic = topic /\ ops[i].handler = handler
                         /\ ops[i].resp = "none" /\ ops'[i].resp = "ok"]_vars

\* a subscribe of h2 has failed while h1 stays the only handler of the topic
C9_Witness ==
    /\ \E i \in DOMAIN ops :
           ops[i].kind = "subscribe" /\ ops[i].handler = "h2" /\ ops[i].st = "failed"
    /\ "t1" \in DOMAIN handlers
    /\ handlers["t1"] = <<"h1">>
    /\ "t1" \in DOMAIN subscriptions
    /\ subscriptions["t1"].handler = "h1"

\* subscribe(t, h1), subscribe(t, h2) and unsubscribe(t, h1) have been made one
\* after the other, the subscribes successfully, and nothing else since
AfterSubSubUnsub ==
    /\ ~overlap
    /\ Len(ops) = 3
    /\ ops[1].kind = "subscribe" /\ ops[1].topic = "t1" /\ ops[1].handler = "h1"
    /\ ops[1].st = "done"
    /\ ops[2].kind = "subscribe" /\ ops[2].topic = "t1" /\ ops[2].handler = "h2"
    /\ ops[2].st = "done"
    /\ ops[3].kind = "unsubscribe" /\ ops[3].topic = "t1" /\ ops[3].handler = "h1"

\* the handlers that the step calls with message m
NewlyInvoked(m) ==
    LET before == IF m \in DOMAIN msgs THEN Len(msgs[m].inv) ELSE 0
    IN  {msgs'[m].inv[k] : k \in {n \in DOMAIN msgs'[m].inv : n > before}}

\* C10: after subscribe(t, h1), subscribe(t, h2) and unsubscribe(t, h1), the
\* unsubscribe has ended without a broker:unsubscribe request, h2 is the
\* handler set of t, every message that then arrives on t is given to h2 and
\* no message is given to h1.
C10_SingleUnsubscribeKeepsOthers ==
    /\ [](AfterSubSubUnsub =>
            /\ ops[3].st = "done"
            /\ Requests("broker:unsubscribe") = {}
            /\ "t1" \in DOMAIN handlers
            /\ handlers["t1"] = <<"h2">>)
    /\ [][(AfterSubSubUnsub /\ AfterSubSubUnsub') =>
            /\ \A m \in DOMAIN msgs' : "h1" \notin NewlyInvoked(m)
            /\ \A m \in (DOMAIN msgs') \ (DOMAIN msgs) :
                   msgs'[m].topic = "t1" => NewlyInvoked(m) = {"h2"}]_vars

\* a message that arrived after the three calls has been given to h2 alone
C10_Witness ==
    /\ AfterSubSubUnsub
    /\ Len(msgs) = 1
    /\ msgs[1].inv = <<"h2">>
    /\ msgs[1].pc = "done"

\* the calls were made one after the other and the last of them is a full-form
\* unsubscribe, which has completed
FullUnsubscribeDone ==
    /\ ~overlap
    /\ Len(ops) >= 1
    /\ ops[Len(ops)].kind = "unsubscribe"
    /\ ops[Len(ops)].handler = NoHandler
    /\ ops[Len(ops)].st = "done"

\* C11: unsubscribe(topic) without a handler always issues a broker:unsubscribe
\* request; the step in which the broker's success response arrives deletes the
\* topic's entry of the handler table, with every handler of it, and its
\* subscription entry; once such a call has completed no message that arrives
\* on the topic is given to any handler.
C11_FullUnsubscribeRemovesAll ==
    /\ [](\A i \in DOMAIN ops :
             (ops[i].kind = "unsubscribe" /\ ops[i].handler = NoHandler)
                 => ops[i].req = "broker:unsubscribe")
    /\ [](FullUnsubscribeDone =>
             /\ ops[Len(ops)].topic \notin DOMAIN handlers
             /\ ops[Len(ops)].topic \notin DOMAIN subscriptions)
    /\ [][/\ \A i \in DOMAIN ops :
              (/\ ops[i].kind = "unsubscribe" /\ ops[i].handler = NoHandler
               /\ ops[i].resp = "none" /\ ops'[i].resp = "ok")
                  => /\ ops'[i].st = "done"
                     /\ ops[i].topic \notin DOMAIN handlers'
                     /\ ops[i].topic \notin DOMAIN subscriptions'
          /\ (FullUnsubscribeDone /\ FullUnsubscribeDone') =>
                 \A m \in (DOMAIN msgs') \ (DOMAIN msgs) :
                     msgs'[m].topic = ops[Len(ops)].topic => NewlyInvoked(m) = {}]_vars

\* h1 and h2 were subscribed, unsubscribe(t1) has completed, and a message on t1
\* was given to no handler
C11_Witness ==
    /\ FullUnsubscribeDone
    /\ Len(ops) = 3
    /\ ops[1].kind = "subscribe" /\ ops[1].handler = "h1" /\ ops[1].st = "done"
    /\ ops[2].kind = "subscribe" /\ ops[2].handler = "h2" /\ ops[2].st = "done"
    /\ handlers = EmptyMap
    /\ Len(msgs) = 1
    /\ msgs[1].inv = <<>>

\* C22: a message that arrives for a topic without an entry in the handler
\* table is dropped: the listener ends at once, no handler is called, no error
\* is logged or thrown, and the tables and the calls are as they were.
C22_MessageWithoutEntryDropped ==
    [][\A m \in (DOMAIN msgs') \ (DOMAIN msgs) :
          msgs'[m].topic \notin DOMAIN handlers =>
              /\ msgs'[m].inv = <<>>
              /\ msgs'[m].pc = "done"
              /\ ~msgs'[m].failed
              /\ handlers' = handlers
              /\ subscriptions' = subscriptions
              /\ ops' = ops
              /\ \A k \in DOMAIN msgs : msgs'[k] = msgs[k]]_vars

\* the topic was subscribed and unsubscribed, and a message for it was dropped
C22_Witness ==
    /\ handlers = EmptyMap
    /\ \E i \in DOMAIN ops : ops[i].kind = "unsubscribe" /\ ops[i].resp = "ok"
    /\ Len(msgs) = 1
    /\ msgs[1].inv = <<>>
    /\ msgs[1].pc = "done"
    /\ ~msgs[1].failed

\* C26: a topic has an entry in the handler table only with a handler Set that
\* is not empty; no entry with an empty Set is left by a single-handler
\* unsubscribe, whether its remote unsubscribe is pending or has failed.
C26_NoEmptyHandlerSet ==
    \A topic \in DOMAIN handlers : Len(handlers[topic]) > 0

\* the subscribe calls that have completed and were followed by no unsubscribe
\* call for their handler or for their whole topic
KeptSubscribes ==
    {i \in DOMAIN ops :
        /\ ops[i].kind = "subscribe" /\ ops[i].st = "done"
        /\ \A j \in DOMAIN ops :
               (j > i /\ ops[j].kind = "unsubscribe" /\ ops[j].topic = ops[i].topic) =>
                   ops[j].handler \notin {ops[i].handler, NoHandler}}

\* C30: under any interleaving of subscribe and unsubscribe calls on a topic,
\* the handler of a subscribe that has completed, and after which no
\* unsubscribe of that handler or of the whole topic was called, is in the
\* handler Set of the topic.
C30_CompletedSubscriberKept ==
    \A i \in KeptSubscribes : Subscribed(handlers, ops[i].topic, ops[i].handler)

\* an unsubscribe that removes the handler from the topic (its single-handler
\* form, or the full form) has completed, no subscribe of the handler to the
\* topic was called after it, and the handler table does not hold the handler
Unsubscribed(topic, handler) ==
    /\ ~Subscribed(handlers, topic, handler)
    /\ \E j \in DOMAIN ops :
           /\ ops[j].kind = "unsubscribe" /\ ops[j].st = "done"
           /\ ops[j].topic = topic /\ ops[j].handler \in {handler, NoHandler}
           /\ \A k \in DOMAIN ops :
                  (k > j /\ ops[k].kind = "subscribe" /\ ops[k].topic = topic) =>
                      ops[k].handler # handler

\* C31: once an unsubscribe that removes a handler has completed, no step
\* gives a message of the topic to that handler, also not the loop of a message
\* that was waiting for an earlier handler when the unsubscribe completed.
C31_RemovedHandlerNotInvoked ==
    [][\A m \in DOMAIN msgs' :
          \A handler \in NewlyInvoked(m) : ~Unsubscribed(msgs'[m].topic, handler)]_vars

\* only subscribes have been called so far
OnlySubscribes(calls_) == \A i \in DOMAIN calls_ : calls_[i].kind = "subscribe"

\* C36: a handler Set holds a handler once, however often it was subscribed:
\* as long as only subscribes were called, the loop of a message ends having
\* called each handler of the Set once, in the order of the Set; a
\* single-handler unsubscribe leaves no occurrence of its handler in the Set
\* and, when that handler was the only one, issues broker:unsubscribe.
C36_HandlerSetSemantics ==
    /\ [](\A topic \in DOMAIN handlers : NoDuplicates(handlers[topic]))
    /\ [][/\ \A m \in DOMAIN msgs' :
                (/\ OnlySubscribes(ops')
                 /\ msgs'[m].pc = "done"
                 /\ (m \notin DOMAIN msgs \/ msgs[m].pc # "done")) =>
                    msgs'[m].inv = IF msgs'[m].topic \in DOMAIN handlers'
                                   THEN handlers'[msgs'[m].topic] ELSE <<>>
          /\ \A i \in (DOMAIN ops') \ (DOMAIN ops) :
                (ops'[i].kind = "unsubscribe" /\ ops'[i].handler # NoHandler) =>
                    /\ ~Subscribed(handlers', ops'[i].topic, ops'[i].handler)
                    /\ (/\ ops'[i].topic \in DOMAIN handlers
                        /\ handlers[ops'[i].topic] = <<ops'[i].handler>>) =>
                           /\ ops'[i].req = "broker:unsubscribe"
                           /\ handlers'[ops'[i].topic] = <<>>]_vars

\* h1 was subscribed twice to t1, a message on t1 was given to h1 once, and
\* one unsubscribe(t1, h1) has emptied the Set and issued broker:unsubscribe
C36_Witness ==
    /\ Len(ops) = 3
    /\ ops[1].kind = "subscribe" /\ ops[1].handler = "h1" /\ ops[1].st = "done"
    /\ ops[2].kind = "subscribe" /\ ops[2].handler = "h1" /\ ops[2].st = "done"
    /\ ops[3].kind = "unsubscribe" /\ ops[3].handler = "h1"
    /\ ops[3].req = "broker:unsubscribe"
    /\ Len(msgs) = 1
    /\ msgs[1].inv = <<"h1">>
    /\ msgs[1].pc = "done"
    /\ handlers = [t1 |-> <<>>]

(***************************************************************************)
(* TopicManager.publish.                                                   *)
(* A publish is a call like the others in ops: it issues broker:publish    *)
(* when it is made and ends when the broker answers.  The data published   *)
(* is not modelled.                                                        *)
(***************************************************************************)
\* publish up to its await
publish(topic) ==
    /\ CallMade(OpStarted("publish", topic, NoHandler, "broker:publish"))
    /\ UNCHANGED <<handlers, subscriptions, msgs, regVars, reqVars>>

\* a publish that fails when the topic has no local handler
PublishEnds_NeedsSubscriber(topic, ok) ==
    IF ok /\ topic \in DOMAIN handlers THEN "done" ELSE "failed"

\* how publish ends for its caller: it returns after the await, or logs the
\* error of the request and throws it again
PublishEnds(topic, ok) == IF ok THEN "done" ELSE "failed"

\* publish after its await
PublishResumes(i, ok) ==
    /\ Pending(i) /\ ops[i].kind = "publish"
    /\ ops' = [ops EXCEPT ![i].resp = IF ok THEN "ok" ELSE "error",
                          ![i].st = PublishEnds(ops[i].topic, ok)]
    /\ UNCHANGED <<handlers, subscriptions, overlap, msgs, regVars, reqVars>>

Publish ==
    /\ Len(ops) < MaxOps
    /\ \E topic \in Topics : publish(topic)
    /\ UNCHANGED lifeVars

PublishResponds ==
    /\ \E i \in DOMAIN ops, ok \in BOOLEAN : SubscribeResumes(i, ok) \/ PublishResumes(i, ok)
    /\ UNCHANGED lifeVars

PublishNext == Subscribe \/ Publish \/ PublishResponds \/ BrokerMessage \/ HandlerDone

\* C21: a publish issues broker:publish and ends successfully as soon as the
\* broker accepts it, whether or not the topic has local handlers; no step of
\* a publish calls a handler or changes the handler table or the subscription
\* table.
C21_PublishIsRemoteOnly ==
    [][\A i \in DOMAIN ops' :
          (ops'[i].kind = "publish" /\ (i \notin DOMAIN ops \/ ops'[i] # ops[i])) =>
              /\ ops'[i].req = "broker:publish"
              /\ ops'[i].resp = "ok" => ops'[i].st = "done"
              /\ handlers' = handlers
              /\ subscriptions' = subscriptions
              /\ msgs' = msgs]_vars

\* a publish on a topic that has no local handler has completed
C21_Witness ==
    /\ handlers = EmptyMap
    /\ \E i \in DOMAIN ops :
           ops[i].kind = "publish" /\ ops[i].resp = "ok" /\ ops[i].st = "done"

(***************************************************************************)
(* TopicManager.cleanup.                                                   *)
(* cleaning records the call: the topics it took from the subscription     *)
(* table (topics), the one it is unsubscribing (k), the place in ops of    *)
(* the unsubscribe it awaits (op) and the length of ops when it was        *)
(* called (from).  The continuation of cleanup runs as soon as the         *)
(* unsubscribe it awaits has ended, before the application or the broker   *)
(* can act again.                                                          *)
(***************************************************************************)
CleanupTopics == Topics \cup {"t2"}

\* the sequences that list every element of S once
Orders(S) ==
    {seq \in [1..Cardinality(S) -> S] : \A i, j \in DOMAIN seq : seq[i] = seq[j] => i = j}

\* a key list cut after its first key
Keys_FirstOnly(map) ==
    {SubSeq(seq, 1, IF Len(seq) > 0 THEN 1 ELSE 0) : seq \in Orders(DOMAIN map)}

\* Array.from(map.keys()): the keys in the order of their insertion, which the
\* model does not track: every order is possible
Keys(map) == Orders(DOMAIN map)

\* cleanup up to its first await: the keys are copied, the first topic is
\* unsubscribed in the full form; with no key the function ends at once
cleanupBegins(topics) ==
    /\ cleaning.st = "idle"
    /\ topics \in Keys(subscriptions)
    /\ IF topics = <<>>
       THEN /\ cleaning' = [cleaning EXCEPT !.st = "done"]
            /\ UNCHANGED <<topVars, regVars, reqVars>>
       ELSE /\ unsubscribe(topics[1], NoHandler)
            /\ cleaning' = [st |-> "running", topics |-> topics, k |-> 1,
                            op |-> Len(ops) + 1, from |-> Len(ops)]
    /\ UNCHANGED <<out, pendingRequests, node>>

\* the unsubscribe that cleanup awaits has ended
Continuing == cleaning.st = "running" /\ ~Pending(cleaning.op)

\* cleanup after an await: it throws what the unsubscribe threw, or goes on to
\* the next topic of its list, or ends
cleanupResumes ==
    /\ Continuing
    /\ IF ops[cleaning.op].st = "failed"
       THEN /\ cleaning' = [cleaning EXCEPT !.st = "failed"]
            /\ UNCHANGED <<topVars, regVars, reqVars>>
       ELSE IF cleaning.k < Len(cleaning.topics)
       THEN /\ unsubscribe(cleaning.topics[cleaning.k + 1], NoHandler)
            /\ cleaning' = [cleaning EXCEPT !.k = @ + 1, !.op = Len(ops) + 1]
       ELSE /\ cleaning' = [cleaning EXCEPT !.st = "done"]
            /\ UNCHANGED <<topVars, regVars, reqVars>>
    /\ UNCHANGED <<out, pendingRequests, node>>

CleanupSubscribe ==
    /\ ~Continuing
    /\ Len(ops) < MaxOps
    /\ \E topic \in CleanupTopics, handler \in TopicHandlers : subscribe(topic, handler)
    /\ UNCHANGED lifeVars

CleanupResponds ==
    /\ ~Continuing
    /\ \E i \in DOMAIN ops, ok \in BOOLEAN :
           SubscribeResumes(i, ok) \/ UnsubscribeResumes(i, ok)
    /\ UNCHANGED lifeVars

CleanupBegin ==
    /\ \E topics \in Keys(subscriptions) : cleanupBegins(topics)
    /\ UNCHANGED sat

CleanupContinue == cleanupResumes /\ UNCHANGED sat

CleanupNext == CleanupSubscribe \/ CleanupResponds \/ CleanupBegin \/ CleanupContinue

Init ==
    /\ RegistryInit
    /\ methods = EmptyMap
    /\ calls = <<>>
    /\ raised = "none"
    /\ handlers = EmptyMap
    /\ subscriptions = EmptyMap
    /\ ops = <<>>
    /\ overlap = FALSE
    /\ msgs = <<>>
    /\ out = <<>>
    /\ pendingRequests = EmptyMap
    /\ node = "constructed"
    /\ cleaning = [st |-> "idle", topics |-> <<>>, k |-> 0, op |-> 0, from |-> 0]
    /\ sat = [ready |-> FALSE, connected |-> FALSE, identified |-> FALSE,
              start |-> "idle", stop |-> "idle", link |-> "closed", inFlight |-> {}]

(***************************************************************************)
(* Dispatch to a settled handler table: the subscribes are made and         *)
(* answered before the first message arrives, then messages arrive while   *)
(* the listener activations of earlier messages are still awaiting their   *)
(* handlers.  A handler may also never settle: the loop that awaits it     *)
(* stays at its await (pc = "stalled").                                    *)
(***************************************************************************)
SetupSubscribe == msgs = <<>> /\ Subscribe

SetupResponds ==
    /\ msgs = <<>>
    /\ \E i \in DOMAIN ops, ok \in BOOLEAN : SubscribeResumes(i, ok)
    /\ UNCHANGED lifeVars

DispatchArrives(topic) ==
    /\ Len(msgs) < MaxDispatchMsgs
    /\ msgs' = Append(msgs, Arrival(topic))
    /\ UNCHANGED <<handlers, subscriptions, ops, overlap, regVars, reqVars>>

DispatchMessage ==
    /\ \E topic \in Topics : DispatchArrives(topic)
    /\ UNCHANGED lifeVars

\* the promise of the handler that the loop of message m awaits never settles
HandlerStalls(m) ==
    /\ msgs[m].pc = "await"
    /\ msgs' = [msgs EXCEPT ![m].pc = "stalled"]
    /\ UNCHANGED <<handlers, subscriptions, ops, overlap, regVars, reqVars>>

HandlerStall ==
    /\ \E m \in DOMAIN msgs : HandlerStalls(m)
    /\ UNCHANGED lifeVars

DispatchNext ==
    SetupSubscribe \/ SetupResponds \/ DispatchMessage \/ HandlerDone \/ HandlerStall

\* the handlers of the topic of message m, in the order of the Set
HandlersOf(m) ==
    IF msgs[m].topic \in DOMAIN handlers THEN handlers[msgs[m].topic] ELSE <<>>

\* C12: a handler that throws or rejects stops nothing: the step in which the
\* failure is caught calls the next handler of the Set with the same message,
\* or ends the listener normally after the last one; a listener that has ended
\* has called every handler of the topic, and a message that arrives after a
\* failure is given to the first handler like any other.
C12_FailureIsolated ==
    /\ [](\A m \in DOMAIN msgs :
             /\ msgs[m].pc \in {"await", "stalled", "done"}
             /\ msgs[m].pc = "done" => msgs[m].inv = HandlersOf(m))
    /\ [][/\ \A m \in DOMAIN msgs :
              (/\ msgs[m].pc = "await" /\ msgs'[m].pc # "stalled"
               /\ ~msgs[m].failed /\ msgs'[m].failed)
                  => IF msgs[m].pos < Len(Iterated(m))
                     THEN /\ msgs'[m].pc = "await"
                          /\ msgs'[m].inv = Append(msgs[m].inv, Iterated(m)[msgs[m].pos + 1])
                     ELSE /\ msgs'[m].pc = "done"
                          /\ msgs'[m].inv = msgs[m].inv
          /\ \A m \in (DOMAIN msgs') \ (DOMAIN msgs) :
              (\E k \in DOMAIN msgs : msgs[k].failed)
                  => /\ HandlersOf(m)' # <<>> => msgs'[m].inv = <<HandlersOf(m)'[1]>>
                     /\ ~msgs'[m].failed]_vars

\* h1 has failed with the first message, h2 has then been called with it, and
\* a second message has been given to both
C12_Witness ==
    /\ Len(msgs) = 2
    /\ msgs[1].failed /\ msgs[1].pc = "await" /\ msgs[1].inv = <<"h1", "h2">>
    /\ msgs[2].inv = <<"h1", "h2">>

\* the settling of the handlers that do not stall is not postponed for ever
FairDispatch == Init /\ [][DispatchNext]_vars /\ WF_vars(HandlerDone)

\* C13: a handler that never completes delays no other handler: every handler
\* subscribed to the topic of a message that has arrived is eventually called
\* with that message.
C13_StallDelaysNoSibling ==
    \A m \in 1..MaxDispatchMsgs : \A handler \in TopicHandlers :
        (m \in DOMAIN msgs /\ SetHas(HandlersOf(m), handler))
            ~> (m \in DOMAIN msgs /\ SetHas(msgs[m].inv, handler))

\* C14: the messages of a topic reach every handler in the order of their
\* arrival: a handler that has been called with a message has been called with
\* every message that arrived on the topic before it.
C14_ArrivalOrderPerHandler ==
    \A m1, m2 \in DOMAIN msgs :
        (m1 < m2 /\ msgs[m1].topic = msgs[m2].topic)
            => \A handler \in TopicHandlers :
                   SetHas(msgs[m2].inv, handler) => SetHas(msgs[m1].inv, handler)

(***************************************************************************)
(* Overlapping subscribe and unsubscribe calls on two topics with a broker *)
(* that answers the requests in the order in which they were sent, each    *)
(* with success.  The requests are sent in the order of the calls (each    *)
(* call runs up to its await when it is made), so the oldest pending call  *)
(* is the next to be answered.  For the broker a subscription is a set of  *)
(* topics: it holds a topic when the last request it answered for the      *)
(* topic is a broker:subscribe.                                            *)
(***************************************************************************)
OrderedTopics == {"t1", "t2"}

OrderedSubscribe ==
    /\ Len(ops) < MaxOps
    /\ \E topic \in OrderedTopics, handler \in TopicHandlers : subscribe(topic, handler)
    /\ UNCHANGED lifeVars

OrderedUnsubscribe ==
    /\ Len(ops) < MaxOps
    /\ \E topic \in OrderedTopics, handler \in TopicHandlers \cup {NoHandler} :
           unsubscribe(topic, handler)
    /\ UNCHANGED lifeVars

OrderedResponds ==
    /\ \E i \in DOMAIN ops :
           /\ \A j \in DOMAIN ops : j < i => ~Pending(j)
           /\ SubscribeResumes(i, TRUE) \/ UnsubscribeResumes(i, TRUE)
    /\ UNCHANGED lifeVars

OrderedNext == OrderedSubscribe \/ OrderedUnsubscribe \/ OrderedResponds

\* the requests for the topic that the broker has answered
AnsweredRequests(topic) ==
    {i \in DOMAIN ops : ops[i].topic = topic /\ ops[i].req # "none" /\ ops[i].resp = "ok"}

\* the topics for which the broker holds a subscription of this node
BrokerTopics ==
    {topic \in OrderedTopics :
        /\ AnsweredRequests(topic) # {}
        /\ LET last == CHOOSE i \in AnsweredRequests(topic) :
                           \A j \in AnsweredRequests(topic) : j <= i
           IN  ops[last].req = "broker:subscribe"}

\* the topics that have at least one local handler
LocalTopics == {topic \in DOMAIN handlers : Len(handlers[topic]) > 0}

Quiescent == \A i \in DOMAIN ops : ~Pending(i)

\* C32: with a broker that answers in the order sent and always with success,
\* whenever no subscribe or unsubscribe is pending, the topics that have a
\* local handler are the topics for which the broker holds a subscription of
\* this node, whatever calls overlapped before.
C32_LocalMatchesBroker ==
    Quiescent => LocalTopics = BrokerTopics

\* calls overlapped: a single-handler unsubscribe that emptied the Set of t1
\* was pending when h2 was subscribed to t1; all are answered, and the broker
\* and the handler table both hold t1
C32_Witness ==
    /\ Quiescent /\ overlap
    /\ Len(ops) = 3
    /\ ops[1].kind = "subscribe" /\ ops[1].topic = "t1" /\ ops[1].handler = "h1"
    /\ ops[2].kind = "unsubscribe" /\ ops[2].topic = "t1" /\ ops[2].handler = "h1"
    /\ ops[2].req = "broker:unsubscribe"
    /\ ops[3].kind = "subscribe" /\ ops[3].topic = "t1" /\ ops[3].handler = "h2"
    /\ LocalTopics = {"t1"}
    /\ BrokerTopics = {"t1"}

(***************************************************************************)
(* Satellite.start, Satellite.stop and the events of the client's socket.  *)
(* sat.start and sat.stop tell where the start() and the stop() call are:  *)
(* idle (not called), at one of their awaits, done (resolved) or failed    *)
(* (rejected).  sat.link is the socket of the client.  sat.inFlight lists  *)
(* the calls that were awaiting the broker when stop() was called.  The    *)
(* continuation of stop() after topics.cleanup() runs in the step in which *)
(* cleanup ends.                                                           *)
(***************************************************************************)
Flags(s) == <<s.ready, s.connected, s.identified>>

\* start() up to await this.client.connect()
startBegins ==
    /\ sat.start \in {"idle", "done", "failed"}
    /\ sat' = [sat EXCEPT !.start = "connecting"]
    /\ UNCHANGED <<out, pendingRequests, node, cleaning, regVars, reqVars, topVars>>

\* connect() after its await, and identify() up to its await
connectResumes(ok) ==
    /\ sat.start = "connecting"
    /\ sat' = IF ok
              THEN [sat EXCEPT !.link = "open", !.connected = TRUE, !.start = "identifying"]
              ELSE [sat EXCEPT !.start = "failed"]
    /\ UNCHANGED <<out, pendingRequests, node, cleaning, regVars, reqVars, topVars>>

\* identify() after its await and the rest of start(); broker:identify is
\* answered only on an open socket
identifyResumes(ok) ==
    /\ sat.start = "identifying"
    /\ ok => sat.link = "open"
    /\ sat' = IF ok
              THEN [sat EXCEPT !.identified = TRUE, !.ready = TRUE, !.start = "done"]
              ELSE [sat EXCEPT !.start = "failed"]
    /\ UNCHANGED <<out, pendingRequests, node, cleaning, regVars, reqVars, topVars>>

\* the listener of 'starling:open' (the client reconnects by itself)
starlingOpen ==
    /\ sat.link = "closed"
    /\ sat.start # "idle"
    /\ sat' = [sat EXCEPT !.link = "open", !.connected = TRUE]
    /\ UNCHANGED <<out, pendingRequests, node, cleaning, regVars, reqVars, topVars>>

\* the listener of 'starling:close'
starlingClose ==
    /\ sat.link = "open"
    /\ sat' = [sat EXCEPT !.link = "closed", !.connected = FALSE]
    /\ UNCHANGED <<out, pendingRequests, node, cleaning, regVars, reqVars, topVars>>

\* where stop() is once cleanup has reached st
AfterCleanup(st) ==
    IF st = "done" THEN "disconnecting" ELSE IF st = "failed" THEN "failed" ELSE "cleaning"

\* stop() up to its first await: topics.cleanup() is called and, when it ends
\* at once, client.disconnect()
stopBegins(topics) ==
    /\ sat.stop = "idle"
    /\ cleanupBegins(topics)
    /\ sat' = [sat EXCEPT !.stop = AfterCleanup(cleaning'.st),
                          !.inFlight = {i \in DOMAIN ops : Pending(i)}]

\* stop() while it awaits topics.cleanup(): cleanup goes on; when it ends
\* client.disconnect() is called, when it throws stop() throws the same
stopContinues ==
    /\ sat.stop = "cleaning"
    /\ cleanupResumes
    /\ sat' = [sat EXCEPT !.stop = AfterCleanup(cleaning'.st)]

\* stop() after await this.client.disconnect()
disconnectResumes(ok) ==
    /\ sat.stop = "disconnecting"
    /\ sat' = IF ok
              THEN [sat EXCEPT !.link = "closed", !.ready = FALSE, !.connected = FALSE,
                               !.identified = FALSE, !.stop = "done"]
              ELSE [sat EXCEPT !.stop = "failed"]
    /\ UNCHANGED <<out, pendingRequests, node, cleaning, regVars, reqVars, topVars>>

LifeStart == ~Continuing /\ startBegins

LifeConnect == ~Continuing /\ \E ok \in BOOLEAN : connectResumes(ok)

LifeIdentify == ~Continuing /\ \E ok \in BOOLEAN : identifyResumes(ok)

LifeOpen == ~Continuing /\ starlingOpen

LifeClose == ~Continuing /\ starlingClose

LifeStop == ~Continuing /\ \E topics \in Keys(subscriptions) : stopBegins(topics)

LifeStopContinue == stopContinues

LifeDisconnect == ~Continuing /\ \E ok \in BOOLEAN : disconnectResumes(ok)

LifeSubscribe == ~Continuing /\ Subscribe

LifeResponds == ~Continuing /\ BrokerResponds

LifeNext ==
    \/ LifeStart \/ LifeConnect \/ LifeIdentify \/ LifeOpen \/ LifeClose
    \/ LifeStop \/ LifeStopContinue \/ LifeDisconnect \/ LifeSubscribe \/ LifeResponds

\* C34: the step in which stop() resolves leaves ready, connected and
\* identified false, the socket closed and the topic tables empty; the step in
\* which the cleanup of stop() fails makes stop() fail and leaves the socket
\* and the three flags as they were.
C34_StopOutcome ==
    [][/\ (sat.stop # "done" /\ sat'.stop = "done") =>
              /\ Flags(sat') = <<FALSE, FALSE, FALSE>>
              /\ sat'.link = "closed"
              /\ subscriptions' = EmptyMap
              /\ handlers' = EmptyMap
       /\ (cleaning.st # "failed" /\ cleaning'.st = "failed") =>
              /\ sat'.stop = "failed"
              /\ sat'.link = sat.link
              /\ Flags(sat') = Flags(sat)]_vars

\* the same for a stop() that no subscribe overlaps: none was awaiting the
\* broker when stop() was called and none was called after it
StopOutcomeWithoutOverlap ==
    [][/\ (/\ sat.stop # "done" /\ sat'.stop = "done"
           /\ sat.inFlight = {}
           /\ \A i \in DOMAIN ops : ops[i].kind = "subscribe" => i <= cleaning.from) =>
              /\ Flags(sat') = <<FALSE, FALSE, FALSE>>
              /\ sat'.link = "closed"
              /\ subscriptions' = EmptyMap
              /\ handlers' = EmptyMap
       /\ (cleaning.st # "failed" /\ cleaning'.st = "failed") =>
              /\ sat'.stop = "failed"
              /\ sat'.link = sat.link
              /\ Flags(sat') = Flags(sat)]_vars

\* C35: ready implies connected and identified.
C35_ReadyImpliesConnected ==
    sat.ready => (sat.connected /\ sat.identified)

\* each component alone, the others at rest
SpecRegistry == Init /\ [][RegistryNext]_vars

SpecRequests == Init /\ [][RequestsNext]_vars

SpecTopics == Init /\ [][TopicsNext]_vars

SpecHandlerErrors == Init /\ [][HandlerErrorsNext]_vars

SpecOutgoing == Init /\ [][OutgoingNext]_vars

SpecPublish == Init /\ [][PublishNext]_vars

SpecCleanup == Init /\ [][CleanupNext]_vars

SpecDispatch == Init /\ [][DispatchNext]_vars

SpecOrdered == Init /\ [][OrderedNext]_vars

SpecLife == Init /\ [][LifeNext]_vars

Next ==
    \/ RegistryNext \/ RequestsNext \/ HandlerErrorsNext \/ OutgoingNext
    \/ TopicsNext \/ PublishNext \/ CleanupNext \/ DispatchNext \/ OrderedNext
    \/ LifeNext

Spec == Init /\ [][Next]_vars

====
